---- MODULE Spec2Model ----
(***************************************************************************)
(* Order materialization in the checkout backend: the Stripe webhook, POST *)
(* /create-order-from-session and POST /send-confirmation-email handlers   *)
(* (the checkout router, lines 206-630 of src/routes/users.ts) running     *)
(* concurrently against the Supabase order store (supabaseService), the    *)
(* Stripe session gateway (services/stripe.ts) and the mailer              *)
(* (sendPurchaseConfirmationEmail); and, as a specification of its own,    *)
(* POST /create-session with the pricing of services/stripe.ts.            *)
(* Every await of a handler is one step, so requests interleave exactly    *)
(* where the event loop can interleave them.                               *)
(***************************************************************************)
EXTENDS Integers, Sequences, FiniteSets, Bags, TLC

\* ---------------------------------------------------------------- bounds
MaxProcs == 2          \* number of HTTP requests served in one behaviour
MaxItems == 2          \* longest metadata.items list
MaxCartItems == 1      \* longest cart sent to create-session

Sessions == {"cs_1"}

\* ------------------------------------------------------- program constants
OrderStatuses == {"pending", "processing", "shipped", "delivered", "cancelled"}
EventTypes == {"checkout.session.completed",
               "checkout.session.async_payment_succeeded",
               "checkout.session.async_payment_failed",
               "other", "missing"}
PaymentStatuses == {"paid", "unpaid"}

NoMeta == [present |-> FALSE]
\* the k-th line entry that createCheckoutSession encoded into metadata.items
MetaItem(k) == [product_id |-> k, quantity |-> k, unit_price |-> 100 * k]
MetaItems(n) == [k \in 1..n |-> MetaItem(k)]
\* session.metadata: null, or the flat map written by createCheckoutSession.
\* parses tells whether JSON.parse(metadata.items) returns, itemsJson is the
\* value it returns; email tells whether metadata.shipping_email ||
\* customer_email is non-empty.
Metadatas ==
    {NoMeta} \cup
    { [present |-> TRUE, parses |-> TRUE, itemsJson |-> MetaItems(MaxItems), email |-> e] :
        e \in BOOLEAN } \cup
    { [present |-> TRUE, parses |-> FALSE, itemsJson |-> <<>>, email |-> e] :
        e \in BOOLEAN }

NoResp == [code |-> 0, order |-> 0, body |-> "none"]
\* a request that has just arrived: its handler's local variables
NewRequest == [pc |-> "start", kind |-> "none", type |-> "none", sid |-> "none",
               orderId |-> 0, payStatus |-> "none", gw |-> "none", order |-> 0,
               ostatus |-> "none", oitems |-> 0, lookupFailed |-> FALSE,
               newStatus |-> "none", err |-> "none", resp |-> NoResp]

VARIABLES
    uniqueSessionIndex, \* whether orders.stripe_session_id carries a unique index
    gwStatus,           \* payment_status the gateway reports per session
    sessionMeta,        \* metadata of each checkout session
    orders,             \* rows of table orders; the id is the position
    orderItems,         \* rows of table order_items
    emails,             \* confirmation emails dispatched
    procs,              \* bag of the requests (in flight and answered) with their locals
    checkout,           \* the create-session request being served, with its answer
    stripeSession,      \* the checkout session last created at the gateway
    authUsers,          \* auth accounts ever created; the id is the position
    adminUsers,         \* rows of table admin_users
    userReqs            \* bag of the POST /api/users requests with their locals

vars == <<uniqueSessionIndex, gwStatus, sessionMeta, orders, orderItems,
          emails, procs, checkout, stripeSession, authUsers, adminUsers, userReqs>>

store == <<orders, orderItems>>
users == <<authUsers, adminUsers, userReqs>>
\* what the order handlers only read
env == <<uniqueSessionIndex, gwStatus, sessionMeta, checkout, stripeSession, users>>

NoCheckout == [pc |-> "idle"]
NoSession == [created |-> FALSE]

\* ------------------------------------------------------------ store reads
OrdersOfSession(sid) == { i \in DOMAIN orders : orders[i].stripe_session_id = sid }

ItemsOfOrder(id) == { i \in DOMAIN orderItems : orderItems[i].order_id = id }

\* .eq('stripe_session_id', sessionId).single(): a row only when exactly one
\* row matches; any error (0 rows, >1 rows, store failure) gives null (0)
getOrderBySessionId(sid, storeOk) ==
    IF storeOk /\ Cardinality(OrdersOfSession(sid)) = 1
    THEN CHOOSE i \in OrdersOfSession(sid) : TRUE
    ELSE 0

\* .eq('id', orderId).single(); null (0) on any error
getOrderById(id, storeOk) ==
    IF storeOk /\ id \in DOMAIN orders THEN id ELSE 0

\* ------------------------------------------------------------- local helpers
Requests == BagToSet(procs)

\* request pr takes a step and becomes rec
Move(pr, rec) == procs' = (procs (-) SetToBag({pr})) (+) SetToBag({rec})

\* a new request is accepted and runs up to its first await
Arrive(rec) ==
    /\ BagCardinality(procs) < MaxProcs
    /\ procs' = procs (+) SetToBag({rec})

\* the handler answers and returns: its locals are gone, what stays is what the
\* request was, what it read from the gateway, which store call failed on it
\* and the response
Respond(pr, code, order, body) ==
    [NewRequest EXCEPT !.pc = "done", !.kind = pr.kind, !.type = pr.type,
                       !.sid = pr.sid,
                       !.gw = pr.gw, !.lookupFailed = pr.lookupFailed, !.err = pr.err,
                       !.resp = [code |-> code, order |-> order, body |-> body]]

OrderRowPending(sid) ==
    [stripe_session_id |-> sid, status |-> "pending", payment_method |-> "stripe"]
\* orderData built at users.ts:402-411 and :560-569
OrderRow(sid) ==
    [stripe_session_id |-> sid, status |-> "processing", payment_method |-> "stripe"]

\* itemsData.map(...) at users.ts:425-430 and :577-582
OrderItemRows(orderId, itemsJson) ==
    [k \in DOMAIN itemsJson |->
        [order_id |-> orderId,
         product_id |-> itemsJson[k].product_id,
         quantity |-> itemsJson[k].quantity,
         unit_price |-> itemsJson[k].unit_price]]

\* the webhook materializes only for a payload that says paid
WebhookPaidGateViaGateway(pr) == gwStatus[pr.sid] = "paid"
WebhookPaidGateOpen(pr) == TRUE
WebhookPaidGate(pr) == pr.payStatus = "paid"

\* create-order-from-session stops unless the session it retrieved is paid
SessionPaidGateOpen(payment_status) == TRUE
SessionPaidGate(payment_status) == payment_status = "paid"

\* the existing-order branch of the webhook writes 'processing' when needed
NeedsProcessingUpdate(status) == status # "processing"

\* ------------------------------------------------------------------- start
\* The service holds no state of its own: when it starts, no request is in
\* flight and the store is as earlier activity left it.  For a session that has
\* metadata the table is empty or holds the one Order an earlier
\* materialization inserted, with its items, in whatever status the handlers
\* or the administrator (who sets shipped/delivered/cancelled) have given it.
\* no admin user traffic
NoUsers == authUsers = <<>> /\ adminUsers = {} /\ userReqs = EmptyBag

StoresAtStart(s) ==
    {[orders |-> <<>>, orderItems |-> <<>>]} \cup
    IF sessionMeta[s].present
    THEN { [orders |-> <<[OrderRow(s) EXCEPT !.status = st]>>,
            orderItems |-> OrderItemRows(1, sessionMeta[s].itemsJson)] :
             st \in OrderStatuses }
    ELSE {}

Init ==
    /\ uniqueSessionIndex \in BOOLEAN
    /\ gwStatus \in [Sessions -> PaymentStatuses]
    /\ sessionMeta \in [Sessions -> Metadatas]
    /\ \E s \in Sessions :
         \E st \in StoresAtStart(s) :
            /\ orders = st.orders
            /\ orderItems = st.orderItems
    /\ emails = <<>>
    /\ procs = EmptyBag
    /\ checkout = NoCheckout
    /\ stripeSession = NoSession
    /\ NoUsers

\* -------------------------------------------------------------- store writes
\* insert(orderData).select().single(): the new row, or an error.  With a
\* unique index on stripe_session_id a second row for the session is refused.
CanInsertOrder(sid) == ~(uniqueSessionIndex /\ OrdersOfSession(sid) # {})

createOrderFailureLogged(pr, next, failCode, failBody) ==
    \/ /\ CanInsertOrder(pr.sid)
       /\ orders' = Append(orders, OrderRow(pr.sid))
       /\ Move(pr, [pr EXCEPT !.pc = next, !.order = Len(orders) + 1,
                              !.ostatus = "processing", !.oitems = 0])
    \/ /\ UNCHANGED orders
       /\ Move(pr, [pr EXCEPT !.pc = next, !.err = "insert"])
\* one await createOrder(orderData) of request pr; next is the pc after success,
\* failCode/failBody the answer after the throw reached the handler's catch
createOrder(pr, next, failCode, failBody) ==
    \/ /\ CanInsertOrder(pr.sid)
       /\ orders' = Append(orders, OrderRow(pr.sid))
       /\ Move(pr, [pr EXCEPT !.pc = next, !.order = Len(orders) + 1,
                              !.ostatus = "processing", !.oitems = 0])
    \/ /\ ~CanInsertOrder(pr.sid)
       /\ UNCHANGED orders
       /\ Move(pr, Respond([pr EXCEPT !.err = "unique"], failCode, 0, failBody))
    \/ /\ UNCHANGED orders
       /\ Move(pr, Respond([pr EXCEPT !.err = "insert"], failCode, 0, failBody))

\* the items try-block: JSON.parse, map, await addOrderItems.  TRUE when the
\* block ran to the insert's success.
ItemsInserted(pr, storeOk) ==
    /\ storeOk
    /\ sessionMeta[pr.sid].parses

addOrderItems(pr, storeOk) ==
    IF ItemsInserted(pr, storeOk)
    THEN orderItems' = orderItems \o OrderItemRows(pr.order, sessionMeta[pr.sid].itemsJson)
    ELSE UNCHANGED orderItems

\* sendPurchaseConfirmationEmail(order, sessionId) inside its try/catch:
\* nothing is sent when the mailer throws
sendPurchaseConfirmationEmail(pr, via, mailOk) ==
    IF mailOk
    THEN emails' = Append(emails, [order_id |-> pr.order, sid |-> pr.sid,
                                   items |-> pr.oitems, via |-> via])
    ELSE UNCHANGED emails

\* update({status, stripe_session_id}).eq('id', orderId).select().single()
updateOrderStatus(orderId, status, sid, storeOk) ==
    IF storeOk /\ orderId \in DOMAIN orders
    THEN orders' = [orders EXCEPT ![orderId].status = status,
                                  ![orderId].stripe_session_id = sid]
    ELSE UNCHANGED orders

\* ------------------------------------------------ POST /api/checkout/webhook
ReceivedAsError(pr) == Respond(pr, 400, 0, "webhook_error")
Received(pr) == Respond(pr, 200, 0, "received")
WebhookErrorSwallowed(pr) == Respond(pr, 200, 0, "received")
WebhookError(pr) == Respond(pr, 400, 0, "webhook_error")

\* entry of the handler up to its first await
WebhookStart(type, sid, payStatus) ==
    /\ LET pr == [NewRequest EXCEPT !.kind = "webhook", !.type = type, !.sid = sid,
                                    !.payStatus = payStatus]
       IN  Arrive(CASE type = "missing" -> Respond(pr, 400, 0, "invalid_event")
                    [] type = "checkout.session.completed" ->
                         IF WebhookPaidGate(pr) THEN [pr EXCEPT !.pc = "w_lookup"]
                         ELSE Received(pr)
                    [] type \in {"checkout.session.async_payment_succeeded",
                                 "checkout.session.async_payment_failed"} ->
                         [pr EXCEPT !.pc = "w_async_lookup"]
                    [] OTHER -> Received(pr))
    /\ UNCHANGED <<env, store, emails>>

\* let order = await getOrderBySessionId(session.id), then the branch on it
WebhookLookup(pr) ==
    /\ pr.pc = "w_lookup"
    /\ \E storeOk \in BOOLEAN :
         LET found == getOrderBySessionId(pr.sid, storeOk)
             miss == [pr EXCEPT !.lookupFailed = ~storeOk]
         IN  Move(pr, IF found = 0
                      THEN IF ~sessionMeta[pr.sid].present THEN Received(miss)
                           ELSE [miss EXCEPT !.pc = "w_create"]
                      ELSE LET ex == [pr EXCEPT !.order = found,
                                                !.ostatus = orders[found].status,
                                                !.oitems = Cardinality(ItemsOfOrder(found))]
                           IN  IF NeedsProcessingUpdate(ex.ostatus)
                               THEN [ex EXCEPT !.pc = "w_update"]
                               ELSE Received(ex))
    /\ UNCHANGED <<env, store, emails>>

WebhookCreate(pr) ==
    /\ pr.pc = "w_create"
    /\ createOrder(pr, "w_items", 400, "webhook_error")
    /\ UNCHANGED <<env, orderItems, emails>>

\* the items try/catch; without a customer email the handler answers at once
WebhookItems(pr) ==
    /\ pr.pc = "w_items"
    /\ \E storeOk \in BOOLEAN :
         /\ addOrderItems(pr, storeOk)
         /\ Move(pr, IF sessionMeta[pr.sid].email THEN [pr EXCEPT !.pc = "w_email"]
                     ELSE Received(pr))
    /\ UNCHANGED <<env, orders, emails>>

WebhookEmail(pr) ==
    /\ pr.pc = "w_email"
    /\ \E mailOk \in BOOLEAN :
         /\ sendPurchaseConfirmationEmail(pr, "webhook", mailOk)
         /\ Move(pr, Received(pr))
    /\ UNCHANGED <<env, store>>

\* order already exists: await updateOrderStatus(order.id, 'processing', id)
WebhookUpdate(pr) ==
    /\ pr.pc = "w_update"
    /\ \E storeOk \in BOOLEAN :
         /\ updateOrderStatus(pr.order, "processing", pr.sid, storeOk)
         /\ Move(pr, IF storeOk THEN Received(pr)
                     ELSE WebhookError([pr EXCEPT !.err = "update"]))
    /\ UNCHANGED <<env, orderItems, emails>>

\* async_payment_succeeded / async_payment_failed: lookup ...
WebhookAsyncLookupCreates(pr) ==
    /\ pr.pc = "w_async_lookup"
    /\ \E storeOk \in BOOLEAN :
         LET found == getOrderBySessionId(pr.sid, storeOk)
         IN  Move(pr, IF found = 0
                      THEN [pr EXCEPT !.pc = "w_create", !.lookupFailed = ~storeOk]
                      ELSE [pr EXCEPT !.pc = "w_async_update", !.order = found,
                                      !.ostatus = orders[found].status])
    /\ UNCHANGED <<env, store, emails>>
WebhookAsyncLookup(pr) ==
    /\ pr.pc = "w_async_lookup"
    /\ \E storeOk \in BOOLEAN :
         LET found == getOrderBySessionId(pr.sid, storeOk)
         IN  Move(pr, IF found = 0 THEN Received([pr EXCEPT !.lookupFailed = ~storeOk])
                      ELSE [pr EXCEPT !.pc = "w_async_update", !.order = found,
                                      !.ostatus = orders[found].status])
    /\ UNCHANGED <<env, store, emails>>

AsyncStatusCancels(type) ==
    IF type = "checkout.session.async_payment_succeeded" THEN "processing" ELSE "cancelled"
AsyncStatus(type) ==
    IF type = "checkout.session.async_payment_succeeded" THEN "processing" ELSE "pending"

\* ... then the unconditional status write
WebhookAsyncUpdate(pr) ==
    /\ pr.pc = "w_async_update"
    /\ \E storeOk \in BOOLEAN :
         /\ updateOrderStatus(pr.order, AsyncStatus(pr.type), pr.sid, storeOk)
         /\ Move(pr, IF storeOk THEN Received(pr)
                     ELSE WebhookError([pr EXCEPT !.err = "update"]))
    /\ UNCHANGED <<env, orderItems, emails>>

\* ------------------------------ POST /api/checkout/create-order-from-session
Success(pr, body) == Respond(pr, 200, pr.order, body)

CofsStart(sid) ==
    /\ LET pr == [NewRequest EXCEPT !.kind = "cofs", !.sid = sid] IN
       Arrive(IF sid = "none" THEN Respond(pr, 400, 0, "session_id_required")
              ELSE [pr EXCEPT !.pc = "c_lookup"])
    /\ UNCHANGED <<env, store, emails>>

\* existingOrder = await getOrderBySessionId(sessionId); early return if found
CofsLookup(pr) ==
    /\ pr.pc = "c_lookup"
    /\ \E storeOk \in BOOLEAN :
         LET found == getOrderBySessionId(pr.sid, storeOk)
         IN  Move(pr, IF found # 0
                      THEN Success([pr EXCEPT !.order = found], "already_created")
                      ELSE [pr EXCEPT !.pc = "c_retrieve", !.lookupFailed = ~storeOk])
    /\ UNCHANGED <<env, store, emails>>

\* session = await retrieveCheckoutSession(sessionId), the paid and metadata checks
CofsRetrieve(pr) ==
    /\ pr.pc = "c_retrieve"
    /\ \E gatewayOk \in BOOLEAN :
         LET got == [pr EXCEPT !.gw = gwStatus[pr.sid]]
         IN  Move(pr, IF ~gatewayOk
                      THEN Respond([pr EXCEPT !.err = "gateway"], 500, 0, "error")
                      ELSE IF ~SessionPaidGate(got.gw)
                           THEN Respond(got, 400, 0, "payment_not_completed")
                      ELSE IF ~sessionMeta[pr.sid].present
                           THEN Respond(got, 400, 0, "missing_order_data")
                      ELSE [got EXCEPT !.pc = "c_create"])
    /\ UNCHANGED <<env, store, emails>>

CofsCreate(pr) ==
    /\ pr.pc = "c_create"
    /\ createOrder(pr, "c_items", 500, "error")
    /\ UNCHANGED <<env, orderItems, emails>>

CofsToEmailFails(pr) == Respond(pr, 500, 0, "error")
\* after the items block: the email step, skipped without a customer email
CofsToEmail(pr) ==
    IF sessionMeta[pr.sid].email THEN [pr EXCEPT !.pc = "c_email"]
    ELSE Success(pr, "created")

CofsItems(pr) ==
    /\ pr.pc = "c_items"
    /\ \E storeOk \in BOOLEAN :
         /\ addOrderItems(pr, storeOk)
         /\ Move(pr, IF ItemsInserted(pr, storeOk) THEN [pr EXCEPT !.pc = "c_refetch"]
                     ELSE CofsToEmail(pr))
    /\ UNCHANGED <<env, orders, emails>>

\* fullOrder = await getOrderById(order.id); if (fullOrder) order = fullOrder
CofsRefetch(pr) ==
    /\ pr.pc = "c_refetch"
    /\ \E storeOk \in BOOLEAN :
         LET full == getOrderById(pr.order, storeOk)
         IN  Move(pr, CofsToEmail(IF full = 0 THEN [pr EXCEPT !.lookupFailed = TRUE]
                                  ELSE [pr EXCEPT !.ostatus = orders[full].status,
                                                  !.oitems = Cardinality(ItemsOfOrder(full))]))
    /\ UNCHANGED <<env, store, emails>>

CofsEmail(pr) ==
    /\ pr.pc = "c_email"
    /\ \E mailOk \in BOOLEAN :
         /\ sendPurchaseConfirmationEmail(pr, "cofs", mailOk)
         /\ Move(pr, Success(pr, "created"))
    /\ UNCHANGED <<env, store>>

\* ------------------------------- POST /api/checkout/send-confirmation-email
\* body {sessionId, orderId}: with a sessionId the session is retrieved first,
\* with only an orderId the Order is read at once
SceStart(sid, orderId) ==
    /\ LET pr == [NewRequest EXCEPT !.kind = "sce", !.sid = sid, !.orderId = orderId] IN
       Arrive(IF sid = "none" /\ orderId = 0 THEN Respond(pr, 400, 0, "id_required")
              ELSE IF sid # "none" THEN [pr EXCEPT !.pc = "e_retrieve"]
              ELSE [pr EXCEPT !.pc = "e_lookup"])
    /\ UNCHANGED <<env, store, emails>>

SceRetrieveNoPaidCheck(pr) ==
    /\ pr.pc = "e_retrieve"
    /\ \E gatewayOk \in BOOLEAN :
         LET got == [pr EXCEPT !.gw = gwStatus[pr.sid]]
         IN  Move(pr, IF ~gatewayOk
                      THEN Respond([pr EXCEPT !.err = "gateway"], 500, 0, "error")
                      ELSE [got EXCEPT !.pc = "e_lookup"])
    /\ UNCHANGED <<env, store, emails>>
\* session = await retrieveCheckoutSession(sessionId) and the paid check
SceRetrieve(pr) ==
    /\ pr.pc = "e_retrieve"
    /\ \E gatewayOk \in BOOLEAN :
         LET got == [pr EXCEPT !.gw = gwStatus[pr.sid]]
         IN  Move(pr, IF ~gatewayOk
                      THEN Respond([pr EXCEPT !.err = "gateway"], 500, 0, "error")
                      ELSE IF got.gw # "paid"
                           THEN Respond(got, 400, 0, "payment_not_completed")
                      ELSE [got EXCEPT !.pc = "e_lookup"])
    /\ UNCHANGED <<env, store, emails>>

\* order = await getOrderBySessionId(sessionId) or getOrderById(orderId), then
\* the not-found and customer-email checks
SceLookup(pr) ==
    /\ pr.pc = "e_lookup"
    /\ \E storeOk \in BOOLEAN :
         LET found == IF pr.sid # "none" THEN getOrderBySessionId(pr.sid, storeOk)
                      ELSE getOrderById(pr.orderId, storeOk)
         IN  Move(pr, IF found = 0
                      THEN Respond([pr EXCEPT !.lookupFailed = ~storeOk], 404, 0,
                                   "order_not_found")
                      ELSE IF ~sessionMeta[orders[found].stripe_session_id].email
                           THEN Respond(pr, 400, 0, "no_customer_email")
                      ELSE [pr EXCEPT !.pc = "e_email", !.order = found,
                                      !.sid = orders[found].stripe_session_id,
                                      !.ostatus = orders[found].status,
                                      !.oitems = Cardinality(ItemsOfOrder(found))])
    /\ UNCHANGED <<env, store, emails>>

\* await sendPurchaseConfirmationEmail(order, ...): here a throw reaches the
\* handler's catch
SceEmail(pr) ==
    /\ pr.pc = "e_email"
    /\ \E mailOk \in BOOLEAN :
         /\ sendPurchaseConfirmationEmail(pr, "sce", mailOk)
         /\ Move(pr, IF mailOk THEN Respond(pr, 200, 0, "email_sent")
                     ELSE Respond([pr EXCEPT !.err = "email"], 500, 0, "error"))
    /\ UNCHANGED <<env, store>>

\* ---------------------------------------------------------------- environment
\* the customer completes the payment at the processor
CustomerPays(s) ==
    /\ gwStatus[s] = "unpaid"
    /\ gwStatus' = [gwStatus EXCEPT ![s] = "paid"]
    /\ UNCHANGED <<uniqueSessionIndex, sessionMeta, store, emails, procs,
                   checkout, stripeSession, users>>

\* one step of the service: a request arrives, or a request in flight resumes
\* after the await it is suspended on
Webhook ==
    \E type \in EventTypes, sid \in Sessions, ps \in PaymentStatuses :
        WebhookStart(type, sid, ps)
WebhookLookupStep == \E pr \in Requests : WebhookLookup(pr)
WebhookCreateStep == \E pr \in Requests : WebhookCreate(pr)
WebhookItemsStep == \E pr \in Requests : WebhookItems(pr)
WebhookEmailStep == \E pr \in Requests : WebhookEmail(pr)
WebhookUpdateStep == \E pr \in Requests : WebhookUpdate(pr)
WebhookAsyncLookupStep == \E pr \in Requests : WebhookAsyncLookup(pr)
WebhookAsyncUpdateStep == \E pr \in Requests : WebhookAsyncUpdate(pr)
CofsLookupStep == \E pr \in Requests : CofsLookup(pr)
CofsRetrieveStep == \E pr \in Requests : CofsRetrieve(pr)
CofsCreateStep == \E pr \in Requests : CofsCreate(pr)
CofsItemsStep == \E pr \in Requests : CofsItems(pr)
CofsRefetchStep == \E pr \in Requests : CofsRefetch(pr)
CofsEmailStep == \E pr \in Requests : CofsEmail(pr)
CreateOrderFromSession == \E sid \in Sessions \cup {"none"} : CofsStart(sid)
SendConfirmationEmail ==
    \E sid \in Sessions \cup {"none"}, orderId \in {0, 1} :
        /\ sid # "none" => orderId = 0
        /\ SceStart(sid, orderId)
SceRetrieveStep == \E pr \in Requests : SceRetrieve(pr)
SceLookupStep == \E pr \in Requests : SceLookup(pr)
SceEmailStep == \E pr \in Requests : SceEmail(pr)
Payment == \E s \in Sessions : CustomerPays(s)

Next ==
    \/ Webhook
    \/ WebhookLookupStep
    \/ WebhookCreateStep
    \/ WebhookItemsStep
    \/ WebhookEmailStep
    \/ WebhookUpdateStep
    \/ WebhookAsyncLookupStep
    \/ WebhookAsyncUpdateStep
    \/ CreateOrderFromSession
    \/ CofsLookupStep
    \/ CofsRetrieveStep
    \/ CofsCreateStep
    \/ CofsItemsStep
    \/ CofsRefetchStep
    \/ CofsEmailStep
    \/ SendConfirmationEmail
    \/ SceRetrieveStep
    \/ SceLookupStep
    \/ SceEmailStep
    \/ Payment

Spec == Init /\ [][Next]_vars


\* ------------------------------------------ POST /api/checkout/create-session
Prices == {0, 5, 105}
Discounts == {0, 50, 90}          \* 0 also stands for an absent discount_percentage
Quantities == {1, 2}
Currencies == {"SEK", "JPY"}
ShippingCosts == {0, 49}
DiscountAmounts == {0, 10}
Subtotals == {105}
Totals == {1, 95, 105, 144, 154}
ProductIds == {"p1", "p2"}

CartItems == [id : ProductIds, price : Prices, productDiscount : Discounts,
              eventDiscount : Discounts, quantity : Quantities]
Carts == UNION { [1..n -> CartItems] : n \in 0..MaxCartItems }
\* req.body of create-session; shippingInfoOk tells whether shippingInfo with
\* email and fullName is there
CheckoutRequests ==
    [items : Carts, shippingInfoOk : BOOLEAN, currency : Currencies,
     subtotal : Subtotals, shipping : ShippingCosts,
     discountAmount : DiscountAmounts, total : Totals]

\* Math.round(basePrice * (1 - discountPercentage / 100)) is computed in
\* doubles: for these (price, discount) the product falls just below the tie
\* n + 0.5 and is rounded down; everywhere else on Prices x Discounts it equals
\* the exact product rounded half up
RoundsBelowTie == {<<5, 90>>, <<105, 90>>}
MathRoundDiscounted(basePrice, discountPercentage) ==
    IF <<basePrice, discountPercentage>> \in RoundsBelowTie
    THEN (basePrice * (100 - discountPercentage)) \div 100
    ELSE (basePrice * (100 - discountPercentage) + 50) \div 100

calculateUnitPriceBestDiscount(item) ==
    LET discountPercentage ==
            IF item.productDiscount > item.eventDiscount THEN item.productDiscount
            ELSE item.eventDiscount
    IN  IF discountPercentage > 0
        THEN MathRoundDiscounted(item.price, discountPercentage)
        ELSE item.price
calculateUnitPrice(item) ==
    LET basePrice == item.price
        productDiscount == item.productDiscount > 0
        eventDiscount == item.eventDiscount > 0
        discountPercentage ==
            IF productDiscount THEN item.productDiscount
            ELSE IF eventDiscount THEN item.eventDiscount ELSE 0
    IN  IF discountPercentage > 0
        THEN MathRoundDiscounted(basePrice, discountPercentage)
        ELSE basePrice

ZeroDecimalCurrencies == {"JPY", "KRW", "CLP", "VND", "XAF", "XOF"}
toSmallestUnit(amount, currency) ==
    IF currency \in ZeroDecimalCurrencies THEN amount ELSE amount * 100

\* line_items handed to the gateway: one per cart item, plus shipping
LineItems(data) ==
    [k \in DOMAIN data.items |->
        [unit_amount |-> toSmallestUnit(calculateUnitPrice(data.items[k]), data.currency),
         quantity |-> data.items[k].quantity]]
    \o IF data.shipping > 0
       THEN <<[unit_amount |-> toSmallestUnit(data.shipping, data.currency),
               quantity |-> 1]>>
       ELSE <<>>

\* strings are sequences of one-character strings
DigitChars == <<"0", "1", "2", "3", "4", "5", "6", "7", "8", "9">>
RECURSIVE Digits(_)
Digits(n) ==
    IF n < 10 THEN <<DigitChars[n + 1]>>
    ELSE Append(Digits(n \div 10), DigitChars[(n % 10) + 1])
\* Number.prototype.toString() of an integer (below 1e21: no exponent form)
toString(n) == IF n < 0 THEN <<"-">> \o Digits(0 - n) ELSE Digits(n)

DigitValue(c) == CHOOSE d \in 0..9 : DigitChars[d + 1] = c
IsDigit(c) == \E d \in 0..9 : DigitChars[d + 1] = c
\* the longest prefix of s made of digits
RECURSIVE DigitPrefix(_)
DigitPrefix(s) ==
    IF s = <<>> \/ ~IsDigit(Head(s)) THEN <<>>
    ELSE <<Head(s)>> \o DigitPrefix(Tail(s))
RECURSIVE DigitsValue(_)
DigitsValue(ds) ==
    IF ds = <<>> THEN 0
    ELSE 10 * DigitsValue(SubSeq(ds, 1, Len(ds) - 1)) + DigitValue(ds[Len(ds)])
\* parseInt(s): an optional sign, then the leading digits; "NaN" without digits
parseInt(s) ==
    LET neg == s # <<>> /\ Head(s) = "-"
        ds == DigitPrefix(IF neg THEN Tail(s) ELSE s)
    IN  IF ds = <<>> THEN "NaN"
        ELSE IF neg THEN 0 - DigitsValue(ds) ELSE DigitsValue(ds)
\* s || d for a string s: the empty (or missing) string is falsy
OrDefault(s, d) == IF s = <<>> THEN d ELSE s

\* JSON.stringify(v) is a text denoting the value v; JSON.parse gives v back
JSONstringify(v) == [json |-> v]
JSONparse(text) == text.json

\* metadata of the created session (the fields the order handlers read later)
SessionMetadata(data) ==
    [discount_amount |-> OrDefault(toString(data.discountAmount), <<"0">>),
     subtotal |-> toString(data.subtotal),
     shipping_cost |-> toString(data.shipping),
     total |-> toString(data.total),
     currency |-> data.currency,
     items |-> JSONstringify(
                 [k \in DOMAIN data.items |->
                    [product_id |-> data.items[k].id,
                     quantity |-> data.items[k].quantity,
                     unit_price |-> calculateUnitPrice(data.items[k]),
                     product_discount_percentage |-> data.items[k].productDiscount,
                     event_discount_percentage |-> data.items[k].eventDiscount]])]

\* the success body of create-session
SessionResponseWithOrderId == {"url", "session_id", "order_id"}
SessionResponse == {"url", "session_id"}

orderDataFromSubtotal(sid, metadata) ==
    OrderRow(sid) @@
    [total_amount |-> parseInt(OrDefault(metadata.subtotal, <<"0">>)),
     currency |-> IF metadata.currency = "" THEN "SEK" ELSE metadata.currency,
     discount_amount |-> parseInt(OrDefault(metadata.discount_amount, <<"0">>))]
\* orderData the order handlers build from the metadata of session sid
orderData(sid, metadata) ==
    OrderRow(sid) @@
    [total_amount |-> parseInt(OrDefault(metadata.total, <<"0">>)),
     currency |-> IF metadata.currency = "" THEN "SEK" ELSE metadata.currency,
     discount_amount |-> parseInt(OrDefault(metadata.discount_amount, <<"0">>))]
\* the rows the order handlers hand to addOrderItems for order orderId (the
\* fallback '[]' is for a session without items metadata, which create-session
\* never makes)
orderItemsOf(orderId, metadata) ==
    LET itemsData == JSONparse(metadata.items)
    IN  [k \in DOMAIN itemsData |->
            [order_id |-> orderId,
             product_id |-> itemsData[k].product_id,
             quantity |-> itemsData[k].quantity,
             unit_price |-> itemsData[k].unit_price]]

\* the handler up to await createCheckoutSession(data): the two validations
\* (requests are independent of each other: one is followed per behaviour)
CreateSessionStart(data) ==
    /\ checkout.pc = "idle"
    /\ checkout' =
         IF data.items = <<>>
         THEN [pc |-> "done", data |-> data, code |-> 400,
               body |-> "cart_items_required", keys |-> {"error"}]
         ELSE IF ~data.shippingInfoOk
         THEN [pc |-> "done", data |-> data, code |-> 400,
               body |-> "shipping_info_required", keys |-> {"error"}]
         ELSE [pc |-> "creating", data |-> data, code |-> 0, body |-> "none",
               keys |-> {}]
    /\ UNCHANGED <<uniqueSessionIndex, gwStatus, sessionMeta, store, emails, procs,
                   stripeSession, users>>

\* stripe.checkout.sessions.create(...) returns the session, or throws
CreateSessionCall ==
    /\ checkout.pc = "creating"
    /\ \E gatewayOk \in BOOLEAN :
         IF gatewayOk
         THEN /\ stripeSession' = [created |-> TRUE,
                                   line_items |-> LineItems(checkout.data),
                                   metadata |-> SessionMetadata(checkout.data)]
              /\ checkout' = [checkout EXCEPT !.pc = "done", !.code = 200,
                                              !.body = "session_url",
                                              !.keys = SessionResponse]
         ELSE /\ UNCHANGED stripeSession
              /\ checkout' = [checkout EXCEPT !.pc = "done", !.code = 500,
                                              !.body = "error", !.keys = {"error"}]
    /\ UNCHANGED <<uniqueSessionIndex, gwStatus, sessionMeta, store, emails, procs,
                   users>>

\* the order handlers' decoding applied to the session create-session made:
\* createOrder(orderData) with the orderData built from its metadata (the
\* paid gate, the duplicate check and the failure answers are followed in Spec)
CreateOrderFromMetadata ==
    /\ stripeSession.created
    /\ orders = <<>>
    /\ \E s \in Sessions : orders' = <<orderData(s, stripeSession.metadata)>>
    /\ UNCHANGED <<env, orderItems, emails, procs>>

\* the items block of the order handlers on that session: JSON.parse, map,
\* addOrderItems; a failure is logged and leaves no OrderItem
AddItemsFromMetadata ==
    /\ stripeSession.created
    /\ Len(orders) = 1 /\ orderItems = <<>>
    /\ \E storeOk \in BOOLEAN :
         orderItems' = IF storeOk THEN orderItemsOf(1, stripeSession.metadata)
                       ELSE orderItems
    /\ UNCHANGED <<env, orders, emails, procs>>

CreateSession ==
    /\ checkout.pc = "idle"
    /\ \E data \in CheckoutRequests : CreateSessionStart(data)

\* the checkout-session endpoint on its own, with no order traffic
InitCheckout ==
    /\ uniqueSessionIndex = FALSE
    /\ gwStatus = [s \in Sessions |-> "unpaid"]
    /\ sessionMeta = [s \in Sessions |-> NoMeta]
    /\ orders = <<>>
    /\ orderItems = <<>>
    /\ emails = <<>>
    /\ procs = EmptyBag
    /\ checkout = NoCheckout
    /\ stripeSession = NoSession
    /\ NoUsers

NextCheckout ==
    \/ CreateSession
    \/ CreateSessionCall
    \/ CreateOrderFromMetadata
    \/ AddItemsFromMetadata

CheckoutSpec == InitCheckout /\ [][NextCheckout]_vars

\* ------------------------------- POST /api/orders/:orderId/status-update-email
NewStatuses == {"none", "shipped"}      \* "none": the body has no newStatus
OrderIds == {1, 2}

\* entry of the handler up to its first await
SueStart(orderId, newStatus) ==
    /\ LET pr == [NewRequest EXCEPT !.kind = "sue", !.orderId = orderId] IN
       Arrive(IF newStatus = "none" THEN Respond(pr, 400, 0, "new_status_required")
              ELSE [pr EXCEPT !.pc = "s_lookup", !.newStatus = newStatus])
    /\ UNCHANGED <<env, store, emails>>

\* order = await getOrderById(orderId), the not-found and shipping-email checks
SueLookup(pr) ==
    /\ pr.pc = "s_lookup"
    /\ \E storeOk \in BOOLEAN :
         LET found == getOrderById(pr.orderId, storeOk)
         IN  Move(pr, IF found = 0
                      THEN Respond([pr EXCEPT !.lookupFailed = ~storeOk], 404, 0,
                                   "order_not_found")
                      ELSE IF ~sessionMeta[orders[found].stripe_session_id].email
                           THEN Respond(pr, 400, 0, "no_customer_email")
                      ELSE [pr EXCEPT !.pc = "s_email", !.order = found,
                                      !.sid = orders[found].stripe_session_id,
                                      !.ostatus = orders[found].status,
                                      !.oitems = Cardinality(ItemsOfOrder(found))])
    /\ UNCHANGED <<env, store, emails>>

SueEmailWritesStatus(pr) ==
    /\ pr.pc = "s_email"
    /\ \E mailOk \in BOOLEAN :
         /\ emails' = IF mailOk
                      THEN Append(emails, [order_id |-> pr.order, sid |-> pr.sid,
                                           items |-> pr.oitems, via |-> "status",
                                           status |-> pr.newStatus])
                      ELSE emails
         /\ Move(pr, IF mailOk THEN Respond(pr, 200, 0, "email_sent")
                     ELSE Respond([pr EXCEPT !.err = "email"], 500, 0, "error"))
    /\ orders' = [orders EXCEPT ![pr.order].status = pr.newStatus]
    /\ UNCHANGED <<env, orderItems>>
\* await sendOrderStatusUpdateEmail(orderData, newStatus, oldStatus): a throw
\* reaches the handler's catch
SueEmail(pr) ==
    /\ pr.pc = "s_email"
    /\ \E mailOk \in BOOLEAN :
         /\ emails' = IF mailOk
                      THEN Append(emails, [order_id |-> pr.order, sid |-> pr.sid,
                                           items |-> pr.oitems, via |-> "status",
                                           status |-> pr.newStatus])
                      ELSE emails
         /\ Move(pr, IF mailOk THEN Respond(pr, 200, 0, "email_sent")
                     ELSE Respond([pr EXCEPT !.err = "email"], 500, 0, "error"))
    /\ UNCHANGED <<env, store>>

\* ------------------------------------------ GET /api/checkout/retrieve-session
RsStart(sid) ==
    /\ LET pr == [NewRequest EXCEPT !.kind = "rs", !.sid = sid] IN
       Arrive(IF sid = "none" THEN Respond(pr, 400, 0, "session_id_required")
              ELSE [pr EXCEPT !.pc = "r_retrieve"])
    /\ UNCHANGED <<env, store, emails>>

\* session = await retrieveCheckoutSession(sessionId), then the answer
RsRetrieve(pr) ==
    /\ pr.pc = "r_retrieve"
    /\ \E gatewayOk \in BOOLEAN :
         Move(pr, IF gatewayOk
                  THEN Respond([pr EXCEPT !.gw = gwStatus[pr.sid]], 200, 0, "session")
                  ELSE Respond([pr EXCEPT !.err = "gateway"], 500, 0, "error"))
    /\ UNCHANGED <<env, store, emails>>

\* ------------------------------------------- the whole service, one request
\* after the other: every route of the three routers that touches orders, the
\* gateway or the mailer, each request served to its answer before the next
ServiceIdle == (\A r \in BagToSet(procs) : r.pc = "done") /\ checkout.pc # "creating"

SampleItem == [id |-> "p1", price |-> 105, productDiscount |-> 0,
               eventDiscount |-> 0, quantity |-> 1]
SampleCheckoutRequests ==
    [items : {<<>>, <<SampleItem>>}, shippingInfoOk : {TRUE}, currency : {"SEK"},
     subtotal : {105}, shipping : {0}, discountAmount : {0}, total : {105}]

ServeWebhook == ServiceIdle /\ Webhook
ServeCreateOrderFromSession == ServiceIdle /\ CreateOrderFromSession
ServeSendConfirmationEmail == ServiceIdle /\ SendConfirmationEmail
ServeStatusUpdateEmail ==
    /\ ServiceIdle
    /\ \E orderId \in OrderIds, newStatus \in NewStatuses : SueStart(orderId, newStatus)
ServeRetrieveSession ==
    /\ ServiceIdle
    /\ \E sid \in Sessions \cup {"none"} : RsStart(sid)
ServeCreateSession ==
    /\ ServiceIdle /\ checkout.pc = "idle"
    /\ \E data \in SampleCheckoutRequests : CreateSessionStart(data)
SueLookupStep == \E pr \in Requests : SueLookup(pr)
SueEmailStep == \E pr \in Requests : SueEmail(pr)
RsRetrieveStep == \E pr \in Requests : RsRetrieve(pr)

NextService ==
    \/ ServeWebhook
    \/ WebhookLookupStep
    \/ WebhookCreateStep
    \/ WebhookItemsStep
    \/ WebhookEmailStep
    \/ WebhookUpdateStep
    \/ WebhookAsyncLookupStep
    \/ WebhookAsyncUpdateStep
    \/ ServeCreateOrderFromSession
    \/ CofsLookupStep
    \/ CofsRetrieveStep
    \/ CofsCreateStep
    \/ CofsItemsStep
    \/ CofsRefetchStep
    \/ CofsEmailStep
    \/ ServeSendConfirmationEmail
    \/ SceRetrieveStep
    \/ SceLookupStep
    \/ SceEmailStep
    \/ ServeStatusUpdateEmail
    \/ SueLookupStep
    \/ SueEmailStep
    \/ ServeRetrieveSession
    \/ RsRetrieveStep
    \/ ServeCreateSession
    \/ CreateSessionCall
    \/ Payment

\* the sessions start unpaid (Payment pays them) with metadata that parses,
\* on a schema without the unique index
InitService ==
    /\ Init
    /\ ~uniqueSessionIndex
    /\ \A s \in Sessions :
         /\ gwStatus[s] = "unpaid"
         /\ sessionMeta[s].present /\ sessionMeta[s].parses

ServiceSpec == InitService /\ [][NextService]_vars

\* ------------------------------------------------------------ POST /api/users
MaxUserReqs == 2
Emails == {"", "a@x", "b@x"}
Roles == {"", "admin", "viewer", "owner"}

validRolesWithOwner == {"super_admin", "admin", "editor", "viewer", "owner"}
validRoles == {"super_admin", "admin", "editor", "viewer"}

NewUserRequest == [pc |-> "done", email |-> "", role |-> "", userId |-> 0,
                   err |-> "none", code |-> 0, body |-> "none"]
UserRequests == BagToSet(userReqs)
UserArrive(rec) ==
    /\ BagCardinality(userReqs) < MaxUserReqs
    /\ userReqs' = userReqs (+) SetToBag({rec})
UserMove(pr, rec) ==
    /\ pr \in UserRequests
    /\ userReqs' = (userReqs (-) SetToBag({pr})) (+) SetToBag({rec})
UserRespond(pr, code, body) == [pr EXCEPT !.pc = "done", !.code = code, !.body = body]

\* the handler up to await supabaseService.createUser(email, password, role)
CreateUserStart(email, passwordGiven, role) ==
    /\ LET pr == [NewUserRequest EXCEPT !.email = email, !.role = role]
       IN  UserArrive(IF email = "" \/ ~passwordGiven \/ role = ""
                      THEN UserRespond(pr, 400, "missing_fields")
                      ELSE IF role \notin validRoles
                      THEN UserRespond(pr, 400, "invalid_role")
                      ELSE [pr EXCEPT !.pc = "u_auth"])
    /\ UNCHANGED <<uniqueSessionIndex, gwStatus, sessionMeta, store, emails, procs,
                   checkout, stripeSession, authUsers, adminUsers>>

\* the auth account of email, if one exists
AuthAccountOf(email) ==
    { i \in DOMAIN authUsers : authUsers[i].exists /\ authUsers[i].email = email }

\* step 1: supabase.auth.admin.createUser; an error (a registered email among
\* them) is thrown to the handler's catch
UserAuthCreate(pr) ==
    /\ pr.pc = "u_auth"
    /\ \E authOk \in BOOLEAN :
         IF authOk /\ AuthAccountOf(pr.email) = {}
         THEN /\ authUsers' = Append(authUsers, [email |-> pr.email, exists |-> TRUE])
              /\ UserMove(pr, [pr EXCEPT !.pc = "u_insert",
                                         !.userId = Len(authUsers) + 1])
         ELSE /\ UNCHANGED authUsers
              /\ UserMove(pr, UserRespond([pr EXCEPT !.err = "auth"], 500, "error"))
    /\ UNCHANGED <<uniqueSessionIndex, gwStatus, sessionMeta, store, emails, procs,
                   checkout, stripeSession, adminUsers>>

\* step 2: insert into admin_users; on success the handler answers
UserInsert(pr) ==
    /\ pr.pc = "u_insert"
    /\ \E insertOk \in BOOLEAN :
         IF insertOk
         THEN /\ adminUsers' = adminUsers \cup
                    {[id |-> pr.userId, email |-> pr.email, role |-> pr.role]}
              /\ UserMove(pr, UserRespond(pr, 200, "user_created"))
         ELSE /\ UNCHANGED adminUsers
              /\ UserMove(pr, [pr EXCEPT !.pc = "u_cleanup", !.err = "insert"])
    /\ UNCHANGED <<uniqueSessionIndex, gwStatus, sessionMeta, store, emails, procs,
                   checkout, stripeSession, authUsers>>

\* the cleanup after a failed insert: auth.admin.deleteUser, whose failure is
\* only logged (or not even seen); then the throw reaches the handler's catch
UserCleanup(pr) ==
    /\ pr.pc = "u_cleanup"
    /\ \E deleteOk \in BOOLEAN :
         IF deleteOk
         THEN /\ authUsers' = [authUsers EXCEPT ![pr.userId].exists = FALSE]
              /\ UserMove(pr, UserRespond(pr, 500, "error"))
         ELSE /\ UNCHANGED authUsers
              /\ UserMove(pr, UserRespond([pr EXCEPT !.err = "cleanup"], 500, "error"))
    /\ UNCHANGED <<uniqueSessionIndex, gwStatus, sessionMeta, store, emails, procs,
                   checkout, stripeSession, adminUsers>>

CreateUser ==
    \E email \in Emails, passwordGiven \in BOOLEAN, role \in Roles :
        CreateUserStart(email, passwordGiven, role)
UserAuthCreateStep == \E pr \in UserRequests : UserAuthCreate(pr)
UserInsertStep == \E pr \in UserRequests : UserInsert(pr)
UserCleanupStep == \E pr \in UserRequests : UserCleanup(pr)

\* the admin users endpoint on its own, with no order traffic
InitUsers ==
    /\ uniqueSessionIndex = FALSE
    /\ gwStatus = [s \in Sessions |-> "unpaid"]
    /\ sessionMeta = [s \in Sessions |-> NoMeta]
    /\ orders = <<>>
    /\ orderItems = <<>>
    /\ emails = <<>>
    /\ procs = EmptyBag
    /\ checkout = NoCheckout
    /\ stripeSession = NoSession
    /\ NoUsers

NextUsers ==
    \/ CreateUser
    \/ UserAuthCreateStep
    \/ UserInsertStep
    \/ UserCleanupStep

UsersSpec == InitUsers /\ [][NextUsers]_vars

\* ================================================================== properties
Done(r) == r.pc = "done"
\* request r takes the step
Stepped(r) == CopiesIn(r, procs') < CopiesIn(r, procs)
\* request r takes the step and becomes rec
Became(r, rec) == Stepped(r) /\ CopiesIn(rec, procs') > CopiesIn(rec, procs)
ItemsOfSession(s) ==
    { i \in DOMAIN orderItems :
        /\ orderItems[i].order_id \in DOMAIN orders
        /\ orders[orderItems[i].order_id].stripe_session_id = s }
\* the emails the materialization handlers dispatched for session s
EmailsOfSession(s) ==
    { i \in DOMAIN emails : emails[i].sid = s /\ emails[i].via \in {"webhook", "cofs"} }
Materializing == {"w_create", "w_items", "w_email"}
\* every order lookup so far was answered by the store without an error
LookupsAnswered == \A r \in Requests : ~r.lookupFailed

\* C1: for every session id, whatever the number and interleaving of paid
\* webhook deliveries and create-order-from-session calls, at most one Order
\* with that stripe_session_id is ever inserted (orders are never deleted and
\* never change session, so the rows present are the rows ever inserted).
\* Stated for the runs in which no lookup fails, where only the interleaving
\* can produce a second row.
C1_AtMostOneOrderPerSession ==
    LookupsAnswered =>
        \A s \in Sessions : Cardinality(OrdersOfSession(s)) <= 1

\* C2: two create-order-from-session calls for the same paid session that both
\* got past the existing-order lookup while no Order was there (the lookup did
\* not fail, the gateway said paid, metadata was present) and met no other store
\* failure both answer success with the same Order id.
C2_RacingCallersSameOrder ==
    \A r1, r2 \in Requests :
        /\ r1 # r2 \/ CopiesIn(r1, procs) >= 2
        /\ r1.kind = "cofs" /\ r2.kind = "cofs" /\ r1.sid = r2.sid
        /\ Done(r1) /\ Done(r2)
        /\ r1.gw = "paid" /\ r2.gw = "paid"
        /\ ~r1.lookupFailed /\ ~r2.lookupFailed
        /\ r1.err \in {"none", "unique"} /\ r2.err \in {"none", "unique"}
        /\ r1.resp.body # "missing_order_data" /\ r2.resp.body # "missing_order_data"
        => /\ r1.resp.code = 200 /\ r2.resp.code = 200
           /\ r1.resp.order = r2.resp.order

\* C3: a materializing handler whose order insert was refused for a duplicate
\* session id (after a lookup that was answered: the Order appeared in between)
\* does not answer with an error.
C3_UniqueViolationNotSurfaced ==
    \A r \in Requests :
        Done(r) /\ r.err = "unique" /\ ~r.lookupFailed => r.resp.code = 200

\* C4: at no state does the number of OrderItem rows bound to Orders of a
\* session exceed the number of entries of metadata.items (stated for the runs
\* in which no lookup fails).
C4_ItemsNeverExceedMetadata ==
    \A s \in Sessions :
        LookupsAnswered /\ sessionMeta[s].present =>
            Cardinality(ItemsOfSession(s)) <= Len(sessionMeta[s].itemsJson)

\* C5: the materialization handlers never dispatch the confirmation email
\* twice for the same session (stated for the runs in which no lookup fails).
C5_EmailAtMostOncePerSession ==
    LookupsAnswered =>
        \A s \in Sessions : Cardinality(EmailsOfSession(s)) <= 1

\* C6: every step that inserts an Order is taken by an invocation that resolved
\* the payment as paid: a webhook 'checkout.session.completed' whose payload
\* says paid, or a create-order-from-session call whose own retrieveSession
\* returned paid.
C6_InsertOnlyWhenPaid ==
    [][Len(orders') > Len(orders) =>
        \E r \in Requests :
            /\ Stepped(r)
            /\ \/ /\ r.kind = "webhook"
                  /\ r.type = "checkout.session.completed"
                  /\ r.payStatus = "paid"
               \/ /\ r.kind = "cofs"
                  /\ r.gw = "paid"]_vars

\* a webhook and a create-order-from-session call have both just inserted
C6_Witness ==
    \E r1, r2 \in Requests :
        /\ r1.kind = "webhook" /\ r1.pc = "w_items" /\ r1.order \in DOMAIN orders
        /\ r2.kind = "cofs" /\ r2.pc = "c_items" /\ r2.order \in DOMAIN orders

\* C7 as stated: every create-order-from-session call with a session id reads the
\* session from the gateway (unless that read itself fails) and answers 400
\* when the status read is not paid, also when an Order already exists.
C7_AlwaysFreshRead ==
    \A r \in Requests :
        r.kind = "cofs" /\ Done(r) /\ r.sid # "none" /\ r.err # "gateway" =>
            /\ r.gw # "none"
            /\ (r.gw # "paid" => r.resp.code = 400)

\* C7 amended: a call whose lookup finds an Order answers success with that
\* Order and never reads the gateway; every other call reads the gateway, goes
\* on to the insert only with status paid, and answers 400 otherwise.
C7_FreshReadUnlessExisting ==
    \A r \in Requests :
        r.kind = "cofs" /\ r.sid # "none" =>
            /\ r.pc \in {"c_create", "c_items", "c_refetch", "c_email"} => r.gw = "paid"
            /\ Done(r) /\ r.resp.body = "already_created" =>
                  /\ r.gw = "none"
                  /\ r.resp.code = 200
                  /\ r.resp.order \in OrdersOfSession(r.sid)
            /\ Done(r) /\ r.resp.body # "already_created" /\ r.err # "gateway" =>
                  /\ r.gw # "none"
                  /\ (r.gw # "paid" =>
                        r.resp.code = 400 /\ r.resp.body = "payment_not_completed")
                  /\ (r.resp.body = "created" => r.gw = "paid")

\* a call read an unpaid session and was refused
C7_Witness ==
    \E r \in Requests :
        /\ r.kind = "cofs" /\ Done(r)
        /\ r.gw = "unpaid" /\ r.resp.code = 400

\* C8: the webhook never reads the gateway, and a 'checkout.session.completed'
\* delivery is on its materialization path exactly by what its payload says:
\* only with payment_status paid, whatever the gateway would report.
C8_WebhookTrustsPayload ==
    \A r \in Requests :
        r.kind = "webhook" =>
            /\ r.gw = "none"
            /\ (r.pc \in Materializing \cup {"w_lookup", "w_update"} =>
                  r.type = "checkout.session.completed" /\ r.payStatus = "paid")

\* a webhook has inserted the Order of a session the gateway reports unpaid
C8_Witness ==
    \E r \in Requests :
        /\ r.kind = "webhook" /\ r.pc = "w_items"
        /\ r.order \in OrdersOfSession(r.sid)
        /\ gwStatus[r.sid] = "unpaid"

\* C9: a trigger that found an existing Order leaves its status alone unless it
\* is 'pending' (the webhook's existing-order branch is the step at w_update).
C9_ExistingOrderOnlyFromPending ==
    [][\A r \in Requests :
         /\ r.pc = "w_update" /\ Stepped(r)
         /\ orders[r.order].status \in {"processing", "shipped", "delivered", "cancelled"}
         => orders' = orders]_vars

\* C10: every status change made by a handler is pending -> processing, so an
\* Order that is shipped, delivered or cancelled is never modified.
C10_OnlyPendingToProcessing ==
    [][\A o \in DOMAIN orders :
         orders'[o].status # orders[o].status
         => orders[o].status = "pending" /\ orders'[o].status = "processing"]_vars

\* C11: the status write of a 'checkout.session.async_payment_failed' delivery
\* that found the session's Order leaves that Order 'pending' (never
\* 'cancelled'), whatever its status was; the delivery is then acknowledged.
C11_AsyncFailedWritesPending ==
    [][\A r \in Requests :
         /\ r.type = "checkout.session.async_payment_failed"
         /\ r.pc = "w_async_update" /\ Became(r, Received(r))
         => /\ orders'[r.order].status = "pending"
            /\ \A o \in DOMAIN orders' : orders'[o].status = "cancelled" =>
                  o \in DOMAIN orders /\ orders[o].status = "cancelled" /\ o # r.order]_vars

\* a failed async payment has been acknowledged while the session's only Order,
\* which handlers insert as 'processing', is 'pending'
C11_Witness ==
    \E r \in Requests :
        /\ r = Received(r) /\ r.type = "checkout.session.async_payment_failed"
        /\ ~r.lookupFailed
        /\ \E o \in OrdersOfSession(r.sid) : orders[o].status = "pending"

\* C12: a payment-succeeded signal that was processed with every collaborator
\* call succeeding leads to an Order for its session.  Only the handlers create
\* Orders, so the Order must be there once the handler has acknowledged the
\* signal: stated for an 'async_payment_succeeded' delivery and for a
\* create-order-from-session call, on a session whose metadata is present and
\* well-formed.
C12_PaidSignalLeavesOrder ==
    \A r \in Requests :
        /\ Done(r) /\ r.resp.code = 200
        /\ r.err = "none" /\ ~r.lookupFailed
        /\ sessionMeta[r.sid].present /\ sessionMeta[r.sid].parses
        /\ \/ r.kind = "webhook" /\ r.type = "checkout.session.async_payment_succeeded"
           \/ r.kind = "cofs"
        => OrdersOfSession(r.sid) # {}

ItemsPcs == {"w_items", "c_items"}
EmailPcs == {"w_email", "c_email"}
\* the success answer of request r: {received: true}, or success with the Order
Succeeds(r) ==
    IF r.kind = "webhook" THEN Respond(r, 200, 0, "received")
    ELSE Respond(r, 200, r.order, "created")
\* the step after the items block when the block did not reach the re-fetch
AfterItems(r) ==
    IF sessionMeta[r.sid].email
    THEN [r EXCEPT !.pc = IF r.kind = "webhook" THEN "w_email" ELSE "c_email"]
    ELSE Succeeds(r)

\* C13: when the items block of a handler fails after its Order was inserted
\* (no item row is added), the step changes no Order, the handler goes on to
\* the notification step (answering success at once when there is no customer
\* email), and the notification step always ends in the success answer and
\* changes nothing in the store.
C13_ItemsFailureKeepsOrder ==
    [][\A r \in Requests :
         /\ (r.pc \in ItemsPcs /\ Stepped(r) /\ orderItems' = orderItems
               => /\ orders' = orders
                  /\ r.order \in DOMAIN orders'
                  /\ Became(r, AfterItems(r)))
         /\ (r.pc \in EmailPcs /\ Stepped(r)
               => /\ store' = store
                  /\ Became(r, Succeeds(r)))]_vars

\* metadata.items parses, yet a create-order-from-session call has answered
\* success for an Order left without items and a webhook delivery has reached
\* its notification step with an Order left without items
C13_Witness ==
    /\ \E r \in Requests :
          /\ r.kind = "cofs" /\ Done(r) /\ r.resp.body = "created"
          /\ r.resp.code = 200
          /\ sessionMeta[r.sid].parses
          /\ orders[r.resp.order].status = "processing"
          /\ ItemsOfOrder(r.resp.order) = {}
    /\ \E r \in Requests :
          /\ r.kind = "webhook" /\ r.pc = "w_email"
          /\ sessionMeta[r.sid].parses
          /\ orders[r.order].status = "processing"
          /\ ItemsOfOrder(r.order) = {}

\* C14: when the confirmation email dispatch throws (nothing is sent), the
\* request still ends with the success answer and the step changes neither
\* the Order nor its items.
C14_EmailFailureStillSuccess ==
    [][\A r \in Requests :
         r.pc \in EmailPcs /\ Stepped(r) /\ emails' = emails
         => /\ orders' = orders /\ orderItems' = orderItems
            /\ r.order \in DOMAIN orders'
            /\ Became(r, Succeeds(r))]_vars

\* a create-order-from-session call answered success with its Order although
\* the email it attempted (a customer email is present) was never sent
C14_Witness ==
    \E r \in Requests :
        /\ r.kind = "cofs" /\ Done(r) /\ r.resp.body = "created"
        /\ r.resp.code = 200
        /\ sessionMeta[r.sid].email
        /\ r.resp.order \in DOMAIN orders
        /\ \A e \in DOMAIN emails : emails[e].order_id # r.resp.order

\* C15: no confirmation email for an Order is dispatched while the handler
\* that inserted the Order has not yet performed its item insertion.
C15_ItemsBeforeEmail ==
    [][Len(emails') > Len(emails) =>
         ~\E r \in Requests :
             /\ r.pc \in ItemsPcs
             /\ r.order = emails'[Len(emails')].order_id]_vars

\* C16: when the items of an Order were inserted, the Order object a
\* materialization handler hands to the mailer carries exactly those items
\* (stated for the runs in which no store read fails).
C16_EmailCarriesItems ==
    LookupsAnswered =>
        \A e \in DOMAIN emails :
            /\ emails[e].via \in {"webhook", "cofs"}
            /\ ItemsOfOrder(emails[e].order_id) # {}
            => emails[e].items = Cardinality(ItemsOfOrder(emails[e].order_id))

\* C17: every step that inserts an Order appends one row with status
\* 'processing', payment_method 'stripe' and the session id of the request
\* taking the step, and leaves the other rows as they were.
C17_InsertedAsProcessing ==
    [][Len(orders') > Len(orders) =>
         /\ Len(orders') = Len(orders) + 1
         /\ SubSeq(orders', 1, Len(orders)) = orders
         /\ orders'[Len(orders')].status = "processing"
         /\ orders'[Len(orders')].payment_method = "stripe"
         /\ \E r \in Requests :
               /\ Stepped(r) /\ r.pc \in {"w_create", "c_create"}
               /\ orders'[Len(orders')].stripe_session_id = r.sid]_vars

\* a handler has just inserted the newest row, for its own session
C17_Witness ==
    \E r \in Requests :
        /\ r.pc \in ItemsPcs
        /\ r.order = Len(orders)
        /\ orders[r.order] = [stripe_session_id |-> r.sid, status |-> "processing",
                              payment_method |-> "stripe"]

\* the discount calculateUnitPrice must apply to a cart item: the product's when
\* positive, otherwise the event's when positive, otherwise none
DiscountOf(item) ==
    IF item.productDiscount > 0 THEN item.productDiscount
    ELSE IF item.eventDiscount > 0 THEN item.eventDiscount
    ELSE 0
\* u is an integer nearest to n / 100
NearestHundredth(u, n) == 100 * u - n <= 50 /\ n - 100 * u <= 50
\* a create-session request was accepted and its session created
SessionCreated == checkout.pc = "done" /\ checkout.code = 200

\* C18: the unit price create-session encodes for every cart item is the base
\* price when no discount is positive, and otherwise price * (1 - d/100) rounded
\* to a nearest integer, d being the product discount when it is positive (also
\* when the event discount is larger) and the event discount otherwise.
C18_UnitPriceByPrecedence ==
    SessionCreated =>
        \A k \in DOMAIN checkout.data.items :
            LET item == checkout.data.items[k]
                u == JSONparse(stripeSession.metadata.items)[k].unit_price
            IN  /\ DiscountOf(item) = 0 => u = item.price
                /\ DiscountOf(item) > 0 =>
                      NearestHundredth(u, item.price * (100 - DiscountOf(item)))

\* a session was created for an item whose smaller product discount won over a
\* larger event discount
C18_Witness ==
    /\ SessionCreated
    /\ \E k \in DOMAIN checkout.data.items :
          /\ checkout.data.items[k] = [id |-> "p1", price |-> 105,
                                       productDiscount |-> 50,
                                       eventDiscount |-> 90, quantity |-> 1]
          /\ JSONparse(stripeSession.metadata.items)[k].unit_price = 53

\* C19: every request create-session accepted and encoded into session
\* metadata has total = subtotal + shipping - discountAmount.
C19_TotalIsConsistent ==
    SessionCreated =>
        parseInt(stripeSession.metadata.total) =
            parseInt(stripeSession.metadata.subtotal)
            + parseInt(stripeSession.metadata.shipping_cost)
            - parseInt(stripeSession.metadata.discount_amount)

ValidationBodies == {"invalid_event", "session_id_required", "missing_order_data"}
MaterializationKinds == {"webhook", "cofs"}
\* the answer of a handler whose catch received a throw
CatchCode(r) == IF r.kind = "webhook" THEN 400 ELSE 500

\* C20 as stated: a materialization request whose order lookup, order insert,
\* item insert or email dispatch failed (the failures of the gateway read and of
\* the status update of an existing Order set aside) ends with a failure
\* response only for a validation error or for payment-not-completed.
C20_OnlyValidationFails ==
    \A r \in Requests :
        /\ r.kind \in MaterializationKinds /\ Done(r)
        /\ r.err \notin {"gateway", "update"}
        /\ r.resp.code # 200
        => r.resp.body \in ValidationBodies \cup {"payment_not_completed"}

\* C20 amended: a failure response is a validation error, payment-not-completed,
\* or the answer of the handler's catch (400 webhook, 500
\* create-order-from-session) to a throw of the order insert, of the gateway
\* read or of the status update, and every such throw is answered that way;
\* failed lookups, item inserts and email dispatches are not surfaced; no step
\* removes an Order or moves it to another session.
C20_FailureResponses ==
    [][/\ \A r \in BagToSet(procs') :
            r.kind \in MaterializationKinds /\ Done(r) =>
                /\ r.err \in {"insert", "unique", "gateway", "update"} =>
                      /\ r.resp.code = CatchCode(r)
                      /\ r.resp.body \in {"webhook_error", "error"}
                /\ r.err = "none" /\ r.resp.code # 200 =>
                      /\ r.resp.code = 400
                      /\ r.resp.body \in ValidationBodies \cup {"payment_not_completed"}
       /\ Len(orders') >= Len(orders)
       /\ \A o \in DOMAIN orders :
            orders'[o].stripe_session_id = orders[o].stripe_session_id]_vars

\* the order insert failed in a webhook delivery and in a
\* create-order-from-session call, and both answered with a failure
C20_Witness ==
    /\ \E r \in Requests :
          r.kind = "webhook" /\ Done(r) /\ r.err = "insert" /\ r.resp.code = 400
    /\ \E r \in Requests :
          r.kind = "cofs" /\ Done(r) /\ r.err = "insert" /\ r.resp.code = 500

\* request rec appears in this step (it arrived, or a request became it)
Appears(rec) == CopiesIn(rec, procs') > CopiesIn(rec, procs)

\* no Order exists for the sessionId, or the orderId, request r carries
NoOrderFor(r) ==
    IF r.sid # "none" THEN OrdersOfSession(r.sid) = {}
    ELSE r.orderId \notin DOMAIN orders

\* C24: send-confirmation-email never changes Orders or OrderItems; when the
\* gateway reports the session not paid it answers 400 and sends nothing; when
\* no Order exists for the sessionId (or the orderId) it answers 404 and sends
\* nothing.
C24_SceRefusals ==
    [][/\ (\E rec \in BagToSet(procs') : rec.kind = "sce" /\ Appears(rec))
            => store' = store
       /\ \A r \in Requests : \A rec \in BagToSet(procs') :
            r.kind = "sce" /\ Became(r, rec) =>
                /\ (r.pc = "e_retrieve" /\ rec.gw \notin {"none", "paid"}
                      => /\ rec = Respond(rec, 400, 0, "payment_not_completed")
                         /\ emails' = emails)
                /\ ((r.pc = "e_lookup" /\ NoOrderFor(r))
                      => /\ rec.resp.code = 404 /\ Done(rec)
                         /\ emails' = emails)]_vars

\* one request was refused for an unpaid session and one found no Order
C24_Witness ==
    /\ \E r \in Requests :
          /\ r.kind = "sce" /\ Done(r) /\ r.gw = "unpaid"
          /\ r.resp = [code |-> 400, order |-> 0, body |-> "payment_not_completed"]
    /\ \E r \in Requests :
          /\ r.kind = "sce" /\ Done(r) /\ ~r.lookupFailed
          /\ r.resp = [code |-> 404, order |-> 0, body |-> "order_not_found"]
    /\ emails = <<>>

\* C28: when the Order insert of a materialization request fails, that step
\* writes nothing and sends nothing, and the request is answered at once by the
\* handler's catch: 400 'Webhook Error' in the webhook, 500 in
\* create-order-from-session; it takes no further step (no items, no email).
C28_InsertFailureStops ==
    [][\A r \in Requests :
         (r.pc \in {"w_create", "c_create"} /\ Stepped(r) /\ orders' = orders)
           => /\ store' = store
              /\ emails' = emails
              /\ \E e \in {"insert", "unique"} :
                   Became(r, Respond([r EXCEPT !.err = e], CatchCode(r), 0,
                                     IF r.kind = "webhook" THEN "webhook_error"
                                     ELSE "error"))]_vars

\* both handlers had their insert fail on a store that stayed empty
C28_Witness ==
    /\ \E r \in Requests :
          /\ r.kind = "webhook" /\ Done(r) /\ r.err \in {"insert", "unique"}
          /\ r.resp = [code |-> 400, order |-> 0, body |-> "webhook_error"]
    /\ \E r \in Requests :
          /\ r.kind = "cofs" /\ Done(r) /\ r.err \in {"insert", "unique"}
          /\ r.resp = [code |-> 500, order |-> 0, body |-> "error"]
    /\ orders = <<>> /\ orderItems = <<>> /\ emails = <<>>

\* C29: for a session without metadata, a materialization request writes no
\* Order, no OrderItem and sends no email; the webhook (checkout.session.completed,
\* paid) still answers 200 {received: true}, and create-order-from-session, once
\* the gateway reported the session paid, answers 400.
C29_NoMetadataNoOrder ==
    [][\A r \in Requests :
         (/\ r.kind \in MaterializationKinds /\ r.sid \in Sessions
          /\ Stepped(r)) =>
           (~sessionMeta[r.sid].present =>
              /\ store' = store /\ emails' = emails
              /\ OrdersOfSession(r.sid) = {}
              /\ r.pc = "w_lookup" =>
                   \E lf \in BOOLEAN :
                     Became(r, Respond([r EXCEPT !.lookupFailed = lf], 200, 0,
                                       "received"))
              /\ r.pc = "c_retrieve" =>
                   \A rec \in BagToSet(procs') :
                     (Became(r, rec) /\ rec.gw = "paid")
                       => rec = Respond(rec, 400, 0, "missing_order_data"))]_vars

\* both handlers answered for a paid session without metadata
C29_Witness ==
    \E s \in Sessions :
        /\ ~sessionMeta[s].present /\ gwStatus[s] = "paid"
        /\ \E r \in Requests :
              /\ r.kind = "webhook" /\ r.type = "checkout.session.completed"
              /\ r.sid = s /\ Done(r)
              /\ r.resp = [code |-> 200, order |-> 0, body |-> "received"]
        /\ \E r \in Requests :
              /\ r.kind = "cofs" /\ r.sid = s /\ Done(r) /\ r.gw = "paid"
              /\ r.resp = [code |-> 400, order |-> 0, body |-> "missing_order_data"]
        /\ orders = <<>> /\ orderItems = <<>> /\ emails = <<>>

\* C26: a materialization request that is the only request the service has
\* received, and therefore started when the Orders now stored for its session
\* already existed, inserts no further Order.
C26_NoInsertWhenOrderExists ==
    [][\A r \in Requests :
         (/\ r.kind \in MaterializationKinds
          /\ BagCardinality(procs) = 1 /\ Stepped(r)
          /\ OrdersOfSession(r.sid) # {})
           => Len(orders') = Len(orders)]_vars

RECURSIVE ChargedAmount(_)
\* sum of unit_amount * quantity over line items
ChargedAmount(lineItems) ==
    IF lineItems = <<>> THEN 0
    ELSE Head(lineItems).unit_amount * Head(lineItems).quantity
         + ChargedAmount(Tail(lineItems))
RECURSIVE ItemsSubtotal(_)
ItemsSubtotal(items) ==
    IF items = <<>> THEN 0
    ELSE calculateUnitPrice(Head(items)) * Head(items).quantity
         + ItemsSubtotal(Tail(items))
\* the amounts of the request add up
AmountsAddUp(data) ==
    /\ data.subtotal = ItemsSubtotal(data.items)
    /\ data.total = data.subtotal + data.shipping - data.discountAmount

\* C27: for a created session whose request's amounts add up, the amount
\* charged (sum of unit_amount * quantity over the line items) is
\* toSmallestUnit(total).
C27_ChargedEqualsTotal ==
    (SessionCreated /\ AmountsAddUp(checkout.data)) =>
        ChargedAmount(stripeSession.line_items)
            = toSmallestUnit(checkout.data.total, checkout.data.currency)

\* C30: every auth account that exists and is not the account of a request
\* still inside createUser has an admin_users row with its id, its email and a
\* role among super_admin, admin, editor, viewer, unless the cleanup delete
\* of its request failed; a request with another role is answered 400 and
\* created nothing; a request whose admin_users insert failed is answered 500
\* with its auth account deleted again when the cleanup delete succeeded.
C30_AuthUsersHaveAdminRow ==
    /\ \A i \in DOMAIN authUsers :
          authUsers[i].exists =>
            \/ \E a \in adminUsers :
                  /\ a.id = i /\ a.email = authUsers[i].email
                  /\ a.role \in {"super_admin", "admin", "editor", "viewer"}
            \/ \E r \in UserRequests :
                  /\ r.userId = i
                  /\ r.pc \in {"u_insert", "u_cleanup"} \/ r.err = "cleanup"
    /\ \A r \in UserRequests :
          /\ (r.role \notin {"super_admin", "admin", "editor", "viewer"})
               => /\ r.pc = "done" /\ r.code = 400 /\ r.userId = 0
                  /\ \A a \in adminUsers : a.email = r.email => a.role # r.role
          /\ (r.pc = "done" /\ r.err = "insert")
               => r.code = 500 /\ ~authUsers[r.userId].exists

\* one request was refused for its role, one had its insert fail and its auth
\* account removed again, and nothing is left behind
C30_Witness ==
    /\ \E r \in UserRequests : r.role = "owner" /\ r.code = 400 /\ r.body = "invalid_role"
    /\ \E r \in UserRequests :
          /\ r.pc = "done" /\ r.err = "insert" /\ r.code = 500
          /\ ~authUsers[r.userId].exists
    /\ adminUsers = {}

C25_StatusEmailReadsOnly ==
    [][/\ (\E rec \in BagToSet(procs') : rec.kind = "sue" /\ Appears(rec))
            => store' = store
       /\ \A r \in Requests : \A rec \in BagToSet(procs') :
            (/\ r.kind = "sue" /\ r.pc = "s_lookup" /\ Became(r, rec)
             /\ r.orderId \notin DOMAIN orders)
              => /\ rec.resp.code = 404 /\ Done(rec)
                 /\ emails' = emails]_vars

\* a status email went out with a status the Order does not have, and another
\* request asked for an Order that does not exist
C25_Witness ==
    /\ \E e \in DOMAIN emails :
          /\ emails[e].via = "status"
          /\ emails[e].status # orders[emails[e].order_id].status
    /\ \E r \in Requests :
          /\ r.kind = "sue" /\ Done(r) /\ ~r.lookupFailed
          /\ r.resp = [code |-> 404, order |-> 0, body |-> "order_not_found"]

====
